---- MODULE Spec2Model ----
(***************************************************************************)
(* Lead-generation service: the monthly quota tracker and the search       *)
(* orchestrator (services/places_api.py), the relational tables            *)
(* (app/database.py), the per-IP rate limiter (app/rate_limiter.py) and    *)
(* the POST /api/search boundary (app/routers/search.py).                  *)
(*                                                                         *)
(* Encoding of Python values: None of a string column is the string        *)
(* "None", None of a numeric column is NoneNum, a rating r is the integer  *)
(* 10*r (4.0 is 40), an absent ORM object is row 0.                        *)
(***************************************************************************)
EXTENDS Integers, Sequences, FiniteSets, TLC

\* ------------------------------------------------------------------ bounds
\* settings.MONTHLY_API_LIMIT, a deployment setting; the model uses a small one
MONTHLY_API_LIMIT == 3
\* the external text search returns at most this many places
MaxPlaces == 2
\* number of POST /api/search requests the rate limiter lets through
MaxInvocations == 3
\* calendar months the clock passes through
MaxMonth == 2

Procs == {1, 2}
NoneNum == 0 - 1
NoneStr == "None"

\* --------------------------------------------------------------- variables
VARIABLES
    now,          \* time.time(), whole seconds
    month,        \* datetime.utcnow().strftime("%Y-%m"), as a month number
    requests,     \* RateLimiter.requests: client identifier -> timestamps
    checked,      \* client identifier of the last rate_limiter.check
    api_usage,    \* table api_usage: rows in rowid order
    searches,     \* table searches
    businesses,   \* table businesses (place_id UNIQUE)
    pc,           \* position of each request handler
    req,          \* the request each handler received last
    current,      \* local `current` of search_businesses
    usage_obj,    \* APIUsage object held unexpired in the handler's Session
    incval,       \* APIUsage state read by the running _increment_api_usage
    after,        \* which external call the running increment follows
    results,      \* results.get("results", []), then places_to_process
    idx,          \* position of the loop over places_to_process
    out,          \* local list `businesses` of search_businesses
    pending,      \* Business objects added to the Session, not yet flushed
    search_id,    \* search_record.id
    details,      \* local `details` of the loop body
    resp,         \* the HTTP response sent last
    extCalls,     \* external calls attempted, per month
    committed,    \* _increment_api_usage calls committed, per month
    invocations,  \* requests the rate limiter has let through so far
    subject,      \* a Business object in a caller's hands
    scored,       \* outcomes of subject.calculate_lead_score()
    dumped,       \* results of subject.to_dict()
    params,       \* query parameters of the last GET /api/businesses
    listed,       \* the response to the last GET /api/businesses
    tpc,          \* position of each thread running rate_limiter.check
    tlist,        \* the list _clean_old_requests built in each thread
    tref,         \* whether the list a thread loaded is still the client's
    accepted,     \* timestamps the threads' checks appended, still unexpired
    remaining     \* the request and result of the last get_remaining

vars == <<now, month, requests, checked, api_usage, searches, businesses, pc, req,
          current, usage_obj, incval, after, results, idx, out, pending,
          search_id, details, resp, extCalls, committed, invocations, subject,
          scored,
          dumped, params, listed, tpc, tlist, tref, accepted,
          remaining>>

dbVars == <<api_usage, searches, businesses>>
limiterVars == <<now, requests, checked>>
objectVars == <<subject, scored, dumped, params, listed>>
callVars == <<tpc, tlist, tref, accepted, remaining>>
localVars == <<current, usage_obj, incval, after, results, idx, out, pending,
               search_id, details>>

\* ----------------------------------------------------------- rate limiter
\* rate_limiter = RateLimiter(requests_per_minute=30, burst_limit=10); the
\* limiter is parametric in both, the model instantiates it with small ones
requests_per_minute == 3
burst_limit == 2
\* _clean_old_requests(ip, window_seconds=60)
WindowSeconds == 60
\* _check_burst: now - t < 5
BurstSeconds == 5
\* Retry-After of the two rejections
RetryBurst == 5
RetryMinute == 60

\* instants at which requests arrive
TimePoints == {0, 4, 5, 60, 64, 65}

RECURSIVE Filter(_, _, _)
\* [t for t in ts if t0 - t < w]
Filter(ts, t0, w) ==
    IF ts = <<>> THEN <<>>
    ELSE IF t0 - Head(ts) < w
         THEN <<Head(ts)>> \o Filter(Tail(ts), t0, w)
         ELSE Filter(Tail(ts), t0, w)

\* self.requests[ip] of a defaultdict(list)
Window(reqs, ip) == IF ip \in DOMAIN reqs THEN reqs[ip] ELSE <<>>

SetWindow(reqs, ip, ts) ==
    [k \in DOMAIN reqs \cup {ip} |-> IF k = ip THEN ts ELSE reqs[k]]

\* _clean_old_requests removing nothing
CleanNothing(reqs, ip, t) == reqs

CleanOldRequests(reqs, ip, t) ==
    SetWindow(reqs, ip, Filter(Window(reqs, ip), t, WindowSeconds))

\* the burst window written with <= for <
CheckBurstInclusive(reqs, ip, t) ==
    Len(Filter(Window(reqs, ip), t, BurstSeconds + 1)) >= burst_limit

CheckBurst(reqs, ip, t) ==
    Len(Filter(Window(reqs, ip), t, BurstSeconds)) >= burst_limit

CheckMinute(reqs, ip) ==
    Len(Window(reqs, ip)) >= requests_per_minute

\* a header or host string is a sequence of characters
IsSpace(c) == c = " "

RECURSIVE LStrip(_)
LStrip(s) == IF s # <<>> /\ IsSpace(Head(s)) THEN LStrip(Tail(s)) ELSE s

RECURSIVE RStrip(_)
RStrip(s) ==
    IF s # <<>> /\ IsSpace(s[Len(s)])
    THEN RStrip(SubSeq(s, 1, Len(s) - 1))
    ELSE s

Strip(s) == RStrip(LStrip(s))

RECURSIVE FirstField(_)
\* s.split(",")[0]
FirstField(s) ==
    IF s = <<>> \/ Head(s) = "," THEN <<>>
    ELSE <<Head(s)>> \o FirstField(Tail(s))

Unknown == <<"unknown">>
NoHeader == <<>>
NoClient == <<>>

\* the socket address taken before the header
ClientIpSocketFirst(r) ==
    IF r.client # NoClient THEN r.client
    ELSE IF r.forwarded # NoHeader THEN Strip(FirstField(r.forwarded))
    ELSE Unknown

\* the client identifier of check(): X-Forwarded-For, else the socket
\* address, else "unknown" (an absent and an empty header are both falsy)
ClientIp(r) ==
    IF r.forwarded # NoHeader
    THEN Strip(FirstField(r.forwarded))
    ELSE IF r.client # NoClient THEN r.client ELSE Unknown

\* the two checks of check() in the other order
CheckVerdictMinuteFirst(reqs, ip, t) ==
    LET cleaned == CleanOldRequests(reqs, ip, t) IN
    IF CheckMinute(cleaned, ip) THEN "minute"
    ELSE IF CheckBurst(cleaned, ip, t) THEN "burst"
    ELSE "ok"

\* check(): "burst", "minute" or "ok", and the map it leaves
CheckVerdict(reqs, ip, t) ==
    LET cleaned == CleanOldRequests(reqs, ip, t) IN
    IF CheckBurst(cleaned, ip, t) THEN "burst"
    ELSE IF CheckMinute(cleaned, ip) THEN "minute"
    ELSE "ok"

\* check() recording the request before it decides
CheckRequestsAlways(reqs, ip, t) ==
    LET cleaned == CleanOldRequests(reqs, ip, t) IN
    SetWindow(cleaned, ip, Append(Window(cleaned, ip), t))

CheckRequests(reqs, ip, t) ==
    LET cleaned == CleanOldRequests(reqs, ip, t) IN
    IF CheckVerdict(reqs, ip, t) = "ok"
    THEN SetWindow(cleaned, ip, Append(Window(cleaned, ip), t))
    ELSE cleaned

\* --------------------------------------------------------------- database
\* class APIUsage: the row id is the position in the table
UsageRow(m, n, t) == [month |-> m, call_count |-> n, last_updated |-> t]

\* the query without its filter on the month
FirstUsageAnyMonth(rows, m, i) == IF Len(rows) = 0 THEN 0 ELSE 1

\* query(APIUsage).filter(APIUsage.month == month).first(): 0 when absent
RECURSIVE FirstUsage(_, _, _)
FirstUsage(rows, m, i) ==
    IF i > Len(rows) THEN 0
    ELSE IF rows[i].month = m THEN i
    ELSE FirstUsage(rows, m, i + 1)

\* query(Business).filter(Business.place_id == pid).first(): 0 when absent
RECURSIVE FirstBusiness(_, _, _)
FirstBusiness(rows, pid, i) ==
    IF i > Len(rows) THEN 0
    ELSE IF rows[i].place_id = pid THEN i
    ELSE FirstBusiness(rows, pid, i + 1)

\* a lookup that never finds the stored record
ExistingNone(rows, place) == 0

\* existing = query(Business).filter(place_id == place.get("place_id"))
\* .first() of the loop body
ExistingBusiness(rows, place) == FirstBusiness(rows, place.place_id, 1)

\* the call_count a fresh SELECT of the month's row returns
UsedCount(rows, m) ==
    LET i == FirstUsage(rows, m, 1) IN
    IF i = 0 THEN 0 ELSE rows[i].call_count

\* an APIUsage object in a Session's identity map; row 0 is no object
NoUsage == [row |-> 0, month |-> 0, call_count |-> 0]

\* the object a query for month m yields in a Session holding obj: an
\* unexpired object of the identity map keeps its loaded attributes
LoadUsage(rows, m, obj) ==
    LET i == FirstUsage(rows, m, 1) IN
    IF i = 0 THEN NoUsage
    ELSE IF obj.row = i THEN obj
    ELSE [row |-> i, month |-> m, call_count |-> rows[i].call_count]

\* _check_api_limit: (current_count, limit)
CheckApiLimit(rows, m, obj) ==
    LET usage == LoadUsage(rows, m, obj) IN
    IF usage.row # 0 THEN usage.call_count ELSE 0

\* _increment_api_usage called with count = 2
IncrementedUsageTwice(rows, usage, m, t) ==
    IF usage.row # 0
    THEN [rows EXCEPT ![usage.row] =
              UsageRow(rows[usage.row].month, usage.call_count + 2, t)]
    ELSE Append(rows, UsageRow(m, 2, t))

\* the rows after the flush of _increment_api_usage(1) on the object read
IncrementedUsage(rows, usage, m, t) ==
    IF usage.row # 0
    THEN [rows EXCEPT ![usage.row] =
              UsageRow(rows[usage.row].month, usage.call_count + 1, t)]
    ELSE Append(rows, UsageRow(m, 1, t))

\* class Business, a new object as search_businesses builds it
NewBusiness(place, det, sid) ==
    [id |-> NoneNum,
     place_id |-> place.place_id,
     name |-> place.name,
     address |-> NoneStr,
     phone |-> IF det.truthy THEN det.phone ELSE NoneStr,
     website |-> IF det.truthy THEN det.website ELSE NoneStr,
     rating |-> place.rating,
     review_count |-> place.user_ratings_total,
     business_types |-> "[]",
     latitude |-> NoneNum,
     longitude |-> NoneNum,
     search_id |-> sid,
     created_at |-> NoneNum]

\* json.loads of the stored business_types
LoadTypes(s) == IF s = NoneStr \/ s = "" \/ s = "[]" THEN <<>> ELSE <<s>>

\* Business.to_dict
to_dict(b) ==
    [id |-> b.id,
     place_id |-> b.place_id,
     name |-> b.name,
     address |-> b.address,
     phone |-> b.phone,
     website |-> b.website,
     rating |-> b.rating,
     review_count |-> b.review_count,
     business_types |-> LoadTypes(b.business_types),
     latitude |-> b.latitude,
     longitude |-> b.longitude,
     created_at |-> b.created_at]

\* Business.place_id is UNIQUE: the flush of pend into rows succeeds iff no
\* place_id of pend is in rows or twice in pend
FlushOK(rows, pend) ==
    /\ \A i \in 1..Len(pend) : FirstBusiness(rows, pend[i].place_id, 1) = 0
    /\ \A i, j \in 1..Len(pend) :
           pend[i].place_id = pend[j].place_id => i = j

\* the businesses table after the INSERTs of a flush at time t
Flushed(rows, pend, t) ==
    rows \o [i \in 1..Len(pend) |->
                [pend[i] EXCEPT !.id = Len(rows) + i, !.created_at = t]]

\* results_count taken after the [:max_results]
NewSearchTruncated(r, n, t, sid) ==
    [id |-> sid, query |-> r.query, location |-> r.location,
     radius_km |-> r.radius_km,
     results_count |-> IF n < r.max_results THEN n ELSE r.max_results,
     created_at |-> t]

\* class Search
NewSearch(r, n, t, sid) ==
    [id |-> sid, query |-> r.query, location |-> r.location,
     radius_km |-> r.radius_km, results_count |-> n, created_at |-> t]

\* ----------------------------------------------------------------- inputs
Min(a, b) == IF a < b THEN a ELSE b

\* POST /api/search bodies: a well-formed one, and the same with one field
\* missing (NoneStr) or at and beyond the ends of its range
GoodRequest ==
    [query |-> "q", location |-> "loc", radius_km |-> 1, max_results |-> 1,
     forwarded |-> <<>>, client |-> <<"a">>]

Requests ==
    {GoodRequest,
     [GoodRequest EXCEPT !.query = NoneStr],
     [GoodRequest EXCEPT !.location = NoneStr]}
    \cup {[GoodRequest EXCEPT !.radius_km = v] : v \in {0, 51}}
    \cup {[GoodRequest EXCEPT !.max_results = v] : v \in {0, 2, 21}}

NoRequest ==
    [query |-> NoneStr, location |-> NoneStr, radius_km |-> 0,
     max_results |-> 0, forwarded |-> NoHeader, client |-> NoClient]

\* radius_km declared with ge=0 for ge=1
ValidRequestLoose(r) ==
    /\ r.query # NoneStr
    /\ r.location # NoneStr
    /\ r.radius_km >= 0 /\ r.radius_km <= 50
    /\ r.max_results >= 1 /\ r.max_results <= 20

\* class SearchRequest: required query and location, Field(ge=1, le=50),
\* Field(ge=1, le=20)
ValidRequest(r) ==
    /\ r.query # NoneStr
    /\ r.location # NoneStr
    /\ r.radius_km >= 1 /\ r.radius_km <= 50
    /\ r.max_results >= 1 /\ r.max_results <= 20

\* what the external text search may return for one place
PlaceResults ==
    {[place_id |-> "p1", name |-> "n", rating |-> 45,
      user_ratings_total |-> 150],
     [place_id |-> "p2", name |-> "n", rating |-> NoneNum,
      user_ratings_total |-> NoneNum]}

ResultLists == UNION {[1..n -> PlaceResults] : n \in 0..MaxPlaces}

\* outcomes of client.geocode: an exception, no match, a match without
\* geometry, a match
GeocodeOutcomes == {"fail", "empty", "malformed", "ok"}

\* `details` after client.place(...).get("result", {})
NoDetails == [truthy |-> FALSE, phone |-> NoneStr, website |-> NoneStr]
DetailsResults ==
    {NoDetails, [truthy |-> TRUE, phone |-> "+1", website |-> "http"]}

\* -------------------------------------------------------------- responses
Response(status, error, retry) ==
    [status |-> status, error |-> error, retry_after |-> retry,
     search_id |-> 0, total_results |-> 0, businesses |-> <<>>,
     calls_used |-> 0, detail |-> <<>>]

\* HTTPException(400, detail=str(e)) of a PlacesAPIError whose message is
\* the f-string of a fixed text and a value
PlacesAPIError(text, value) ==
    [Response(400, "PlacesAPIError", 0) EXCEPT !.detail = <<text, value>>]

NoResponse == Response(0, "none", 0)

\* the result list without the [:max_results]
PlacesToProcessAll(res, r) == res

\* places_to_process = results.get("results", [])[:max_results]
PlacesToProcess(res, r) == SubSeq(res, 1, Min(r.max_results, Len(res)))

\* ---------------------------------------------------- GET /api/businesses
\* the query parameters at their defaults, None or the declared default
NoParams ==
    [search_id |-> NoneNum, has_website |-> "None", min_rating |-> NoneNum,
     limit |-> 50, offset |-> 0]

NoListing ==
    [status |-> 0, total |-> 0, limit |-> 0, offset |-> 0,
     businesses |-> <<>>]

\* `if v:` on an Optional number: None and 0 are falsy
Truthy(v) == v # NoneNum /\ v # 0

\* the filters list_businesses adds to the query, on one row (a comparison
\* with NULL selects nothing)
Selected(b, q) ==
    /\ Truthy(q.search_id) => b.search_id = q.search_id
    /\ q.has_website = "True" => (b.website # NoneStr /\ b.website # "")
    /\ q.has_website = "False" => (b.website = NoneStr \/ b.website = "")
    /\ Truthy(q.min_rating) =>
           (b.rating # NoneNum /\ b.rating >= q.min_rating)

RECURSIVE SelectRows(_, _)
SelectRows(rows, q) ==
    IF rows = <<>> THEN <<>>
    ELSE (IF Selected(Head(rows), q) THEN <<Head(rows)>> ELSE <<>>)
         \o SelectRows(Tail(rows), q)

\* Business.rating.desc().nullslast(): row a may come before row b
RatingOrder(a, b) ==
    \/ b.rating = NoneNum
    \/ a.rating # NoneNum /\ a.rating >= b.rating

\* the orders ORDER BY may return the rows in: rows of equal rating come
\* in any order
OrderBy(rows) ==
    IF rows = <<>> THEN {<<>>}
    ELSE {s \in {[i \in 1..Len(rows) |-> rows[f[i]]] :
                    f \in Permutations(1..Len(rows))} :
             \A i, j \in 1..Len(s) : i < j => RatingOrder(s[i], s[j])}

\* .offset(offset).limit(limit) as SQLite runs it: a negative OFFSET is 0,
\* a negative LIMIT is no limit
OffsetLimit(rows, offset, limit) ==
    LET skip == IF offset < 0 THEN 0 ELSE offset
        last == IF limit < 0 THEN Len(rows)
                ELSE Min(Len(rows), skip + limit)
    IN IF skip + 1 > last THEN <<>> ELSE SubSeq(rows, skip + 1, last)

\* the responses list_businesses may give on the table rows: 422 for a
\* limit over le=200, else total, the echoed limit and offset and the page
list_businesses(rows, q) ==
    IF q.limit > 200 THEN {[NoListing EXCEPT !.status = 422]}
    ELSE LET matches == SelectRows(rows, q) IN
         {[status |-> 200, total |-> Len(matches), limit |-> q.limit,
           offset |-> q.offset,
           businesses |->
               LET page == OffsetLimit(o, q.offset, q.limit) IN
               [i \in 1..Len(page) |-> to_dict(page[i])]] :
             o \in OrderBy(matches)}

\* no get_remaining call made yet
NoRemaining == [request |-> NoRequest, limit |-> 0, remaining |-> 0]

\* ------------------------------------------------------------------- state
InitRest ==
    /\ now = 0
    /\ month = 1
    /\ requests = <<>>
    /\ checked = <<>>
    /\ api_usage = <<>>
    /\ pc = [p \in Procs |-> "idle"]
    /\ req = [p \in Procs |-> NoRequest]
    /\ current = [p \in Procs |-> 0]
    /\ usage_obj = [p \in Procs |-> NoUsage]
    /\ incval = [p \in Procs |-> NoUsage]
    /\ after = [p \in Procs |-> "none"]
    /\ results = [p \in Procs |-> <<>>]
    /\ idx = [p \in Procs |-> 0]
    /\ out = [p \in Procs |-> <<>>]
    /\ pending = [p \in Procs |-> <<>>]
    /\ search_id = [p \in Procs |-> 0]
    /\ details = [p \in Procs |-> NoDetails]
    /\ resp = NoResponse
    /\ extCalls = [m \in 1..MaxMonth |-> 0]
    /\ committed = [m \in 1..MaxMonth |-> 0]
    /\ invocations = 0
    /\ scored = <<>>
    /\ dumped = <<>>
    /\ params = NoParams
    /\ listed = NoListing
    /\ tpc = [th \in Procs |-> "idle"]
    /\ tlist = [th \in Procs |-> <<>>]
    /\ tref = [th \in Procs |-> FALSE]
    /\ accepted = <<>>
    /\ remaining = NoRemaining

\* the tables as init_db leaves a new database
InitService ==
    /\ InitRest
    /\ searches = <<>>
    /\ businesses = <<>>

\* Business(...) as the callers of the model's methods construct it
BusinessObject(w, r, n, ph) ==
    [id |-> 1, place_id |-> "p1", name |-> "n", address |-> NoneStr,
     phone |-> ph, website |-> w, rating |-> r, review_count |-> n,
     business_types |-> "[]", latitude |-> NoneNum, longitude |-> NoneNum,
     search_id |-> NoneNum, created_at |-> NoneNum]

Init ==
    /\ InitService
    /\ subject = BusinessObject(NoneStr, NoneNum, NoneNum, NoneStr)

\* the handler p moves to position pos with these locals
Locals(p, pos, cur, uo, iv, af, res, i, o, pend, sid, det) ==
    /\ pc' = [pc EXCEPT ![p] = pos]
    /\ current' = [current EXCEPT ![p] = cur]
    /\ usage_obj' = [usage_obj EXCEPT ![p] = uo]
    /\ incval' = [incval EXCEPT ![p] = iv]
    /\ after' = [after EXCEPT ![p] = af]
    /\ results' = [results EXCEPT ![p] = res]
    /\ idx' = [idx EXCEPT ![p] = i]
    /\ out' = [out EXCEPT ![p] = o]
    /\ pending' = [pending EXCEPT ![p] = pend]
    /\ search_id' = [search_id EXCEPT ![p] = sid]
    /\ details' = [details EXCEPT ![p] = det]

\* the handler p answers r: its Session is closed, its locals are gone
\* (the caller says what becomes of req)
Finish(p, r) ==
    /\ Locals(p, "idle", 0, NoUsage, NoUsage, "none", <<>>, 0, <<>>, <<>>, 0,
              NoDetails)
    /\ resp' = r

\* an external call is attempted in the current month
Attempt ==
    /\ extCalls' = [extCalls EXCEPT ![month] = @ + 1]
    /\ UNCHANGED committed

\* the gate written with > for >=
LimitReachedStrict(cur, limit) == cur > limit

\* if current >= limit: raise APILimitExceeded
LimitReached(cur, limit) == cur >= limit

\* if current + 2 < limit: the details fetch has room in the budget
DetailsBudget(cur, limit) == cur + 2 < limit

\* ----------------------------------------------------- POST /api/search
\* request validation (422), rate_limiter.check (429 with Retry-After),
\* PlacesService(db) and the quota gate of search_businesses
PostSearch(p, bodies) ==
    /\ pc[p] = "idle"
    /\ \E r \in bodies :
         IF ~ValidRequest(r)
         THEN /\ resp' = Response(422, "validation", 0)
              /\ req' = [req EXCEPT ![p] = r]
              /\ UNCHANGED <<now, month, requests, checked, dbVars, pc,
                             localVars, extCalls, committed, invocations,
                   objectVars, callVars>>
         ELSE
           LET ip == ClientIp(r)
               verdict == CheckVerdict(requests, ip, now)
               used == CheckApiLimit(api_usage, month, NoUsage)
           IN
           /\ verdict = "ok" => invocations < MaxInvocations
           /\ invocations' = IF verdict = "ok" THEN invocations + 1
                             ELSE invocations
           /\ requests' = CheckRequests(requests, ip, now)
           /\ checked' = ip
           /\ req' = [req EXCEPT ![p] = r]
           /\ UNCHANGED <<now, month, dbVars, extCalls, committed, objectVars, callVars>>
           /\ IF verdict = "burst"
              THEN Finish(p, Response(429, "rate", RetryBurst))
              ELSE IF verdict = "minute"
              THEN Finish(p, Response(429, "rate", RetryMinute))
              ELSE IF LimitReached(used, MONTHLY_API_LIMIT)
              THEN Finish(p, Response(429, "APILimitExceeded", 0))
              ELSE /\ Locals(p, "geocode", used,
                            LoadUsage(api_usage, month, NoUsage), NoUsage,
                            "none", <<>>, 0, <<>>, <<>>, 0, NoDetails)
                   /\ UNCHANGED resp

\* self.client.geocode(location), then the SELECT of _increment_api_usage
Geocode(p) ==
    /\ pc[p] = "geocode"
    /\ Attempt
    /\ UNCHANGED <<now, month, requests, checked, dbVars, invocations,
                   objectVars, callVars>>
    /\ \E o \in GeocodeOutcomes :
         IF o = "fail"
         THEN /\ Finish(p, PlacesAPIError("Failed to geocode location: ",
                                          "cause"))
              /\ UNCHANGED req
         ELSE /\ Locals(p, "increment", current[p], usage_obj[p],
                       [LoadUsage(api_usage, month, usage_obj[p])
                            EXCEPT !.month = month],
                       o, results[p], idx[p], out[p], pending[p],
                       search_id[p], details[p])
              /\ UNCHANGED <<req, resp>>

\* self.client.places(...), then the SELECT of _increment_api_usage
Places(p) ==
    /\ pc[p] = "places"
    /\ Attempt
    /\ UNCHANGED <<now, month, requests, checked, dbVars, invocations,
                   objectVars, callVars>>
    /\ \/ /\ Finish(p, PlacesAPIError("Places search failed: ", "cause"))
          /\ UNCHANGED req
       \/ \E res \in ResultLists :
            /\ Locals(p, "increment", current[p], usage_obj[p],
                      [LoadUsage(api_usage, month, usage_obj[p])
                           EXCEPT !.month = month],
                      "places", res, idx[p], out[p], pending[p],
                      search_id[p], details[p])
            /\ UNCHANGED <<req, resp>>

\* the business built for the place at idx, added to the Session and
\* appended to the result list; the loop moves on
AddBusiness(p, pend, cur, det) ==
    LET place == results[p][idx[p]]
        business == NewBusiness(place, det, search_id[p])
    IN Locals(p, "loop", cur, NoUsage, NoUsage, "none", results[p],
              idx[p] + 1, Append(out[p], to_dict(business)),
              Append(pend, business), search_id[p], NoDetails)

\* usage.call_count += 1 on the object read and self.db.commit(), which
\* flushes the pending Business objects too; then the code up to the next
\* external call or query. A failed flush rolls the transaction back and
\* expunges the pending objects.
Increment(p) ==
    LET ok == FlushOK(businesses, pending[p])
        sid == Len(searches) + 1
    IN
    /\ pc[p] = "increment"
    /\ api_usage' = IF ok
                    THEN IncrementedUsage(api_usage, incval[p],
                                          incval[p].month, now)
                    ELSE api_usage
    /\ businesses' = IF ok THEN Flushed(businesses, pending[p], now)
                     ELSE businesses
    /\ committed' = IF ok THEN [committed EXCEPT ![incval[p].month] = @ + 1]
                    ELSE committed
    /\ UNCHANGED <<now, month, requests, checked, extCalls, invocations,
                   objectVars, callVars>>
    /\ IF after[p] = "details"
       THEN \* except: pass swallows a failed commit; current += 1 is skipped
            /\ AddBusiness(p, <<>>, IF ok THEN current[p] + 1 ELSE current[p],
                           details[p])
            /\ UNCHANGED <<searches, req, resp>>
       ELSE IF ~ok
       THEN \* except Exception: raise PlacesAPIError
            /\ Finish(p, PlacesAPIError(IF after[p] = "places"
                                        THEN "Places search failed: "
                                        ELSE "Failed to geocode location: ",
                                        "IntegrityError"))
            /\ UNCHANGED <<searches, req>>
       ELSE IF after[p] = "empty"
       THEN \* if not geocode_result: raise PlacesAPIError
            /\ Finish(p, PlacesAPIError("Could not find location: ",
                                        req[p].location))
            /\ UNCHANGED <<searches, req>>
       ELSE IF after[p] = "malformed"
       THEN \* geocode_result[0]["geometry"] raises KeyError
            /\ Finish(p, Response(500, "KeyError", 0))
            /\ UNCHANGED <<searches, req>>
       ELSE IF after[p] = "ok"
       THEN /\ Locals(p, "places", current[p], NoUsage, NoUsage, "none",
                      results[p], idx[p], out[p], <<>>, search_id[p],
                      details[p])
            /\ UNCHANGED <<searches, req, resp>>
       ELSE \* after the text search: the Search record is committed
            /\ searches' = Append(searches,
                                  NewSearch(req[p], Len(results[p]), now, sid))
            /\ Locals(p, "loop", current[p], NoUsage, NoUsage, "none",
                      PlacesToProcess(results[p], req[p]), 1, <<>>, <<>>,
                      sid, details[p])
            /\ UNCHANGED <<req, resp>>

\* one pass of `for place in places_to_process` up to the details fetch,
\* or, past the last place, the final commit and the response
Loop(p) ==
    LET todo == results[p] IN
    /\ pc[p] = "loop"
    /\ UNCHANGED <<now, month, requests, checked, api_usage, searches, extCalls, committed,
                   invocations,
                   objectVars, callVars>>
    /\ IF idx[p] <= Len(todo)
       THEN LET existing == ExistingBusiness(businesses, todo[idx[p]])
            IN
            /\ UNCHANGED <<businesses, req, resp>>
            /\ IF existing # 0
               THEN Locals(p, "loop", current[p], usage_obj[p], incval[p],
                           after[p], results[p], idx[p] + 1,
                           Append(out[p], to_dict(businesses[existing])),
                           pending[p], search_id[p], details[p])
               ELSE IF DetailsBudget(current[p], MONTHLY_API_LIMIT)
               THEN Locals(p, "details", current[p], usage_obj[p], incval[p],
                           after[p], results[p], idx[p], out[p], pending[p],
                           search_id[p], details[p])
               ELSE AddBusiness(p, pending[p], current[p], NoDetails)
       ELSE IF FlushOK(businesses, pending[p])
       THEN /\ businesses' = Flushed(businesses, pending[p], now)
            /\ UNCHANGED req
            /\ Finish(p, [Response(200, "none", 0) EXCEPT
                             !.search_id = search_id[p],
                             !.total_results = Len(out[p]),
                             !.businesses = out[p],
                             !.calls_used =
                                 CheckApiLimit(api_usage, month, NoUsage)])
       ELSE \* IntegrityError reaches the router's except Exception
            /\ UNCHANGED <<businesses, req>>
            /\ Finish(p, Response(500, "IntegrityError", 0))

\* the details fetch without its try/except: a failed call ends the search
DetailsAbort(p) ==
    /\ pc[p] = "details"
    /\ Attempt
    /\ UNCHANGED <<now, month, requests, checked, dbVars, invocations, req,
                   objectVars, callVars>>
    /\ \/ Finish(p, Response(500, "Exception", 0))
       \/ \E d \in DetailsResults :
            /\ Locals(p, "increment", current[p], usage_obj[p],
                      [LoadUsage(api_usage, month, usage_obj[p])
                           EXCEPT !.month = month],
                      "details", results[p], idx[p], out[p], pending[p],
                      search_id[p], d)
            /\ UNCHANGED resp

\* self.client.place(place_id, fields=...), then the SELECT of
\* _increment_api_usage; a failed call leaves details None
Details(p) ==
    /\ pc[p] = "details"
    /\ Attempt
    /\ UNCHANGED <<now, month, requests, checked, dbVars, invocations, req,
                   resp, objectVars, callVars>>
    /\ \/ AddBusiness(p, pending[p], current[p], NoDetails)
       \/ \E d \in DetailsResults :
            Locals(p, "increment", current[p], usage_obj[p],
                   [LoadUsage(api_usage, month, usage_obj[p])
                        EXCEPT !.month = month],
                   "details", results[p], idx[p], out[p], pending[p],
                   search_id[p], d)

\* the calendar month changes
NextMonth ==
    /\ month < MaxMonth
    /\ month' = month + 1
    /\ UNCHANGED <<now, requests, checked, dbVars, pc, req, localVars, resp,
                   extCalls, committed, invocations,
                   objectVars, callVars>>

Step(p, bodies) ==
    \/ PostSearch(p, bodies)
    \/ Geocode(p)
    \/ Places(p)
    \/ Increment(p)
    \/ Loop(p)
    \/ Details(p)

\* requests handled concurrently, each with its own Session
ConcurrentRequests == {[GoodRequest EXCEPT !.max_results = 2]}

Next == \E p \in Procs : Step(p, ConcurrentRequests)

Spec == Init /\ [][Next]_vars

\* requests handled one at a time, within one month
NextSeq == Step(1, Requests)

SpecSeq == Init /\ [][NextSeq]_vars

\* requests handled one at a time, across month changes
NextMonths ==
    \/ Step(1, Requests)
    \/ NextMonth

SpecMonths == Init /\ [][NextMonths]_vars

\* ------------------------------------------------- the rate limiter alone
\* requests as rate_limiter.check sees them: headers and socket address
LimiterRequests ==
    {[GoodRequest EXCEPT !.forwarded = f, !.client = c] :
        f \in {NoHeader, <<" ", "b", ",", "a">>}, c \in {<<"a">>}}
    \cup {[GoodRequest EXCEPT !.forwarded = NoHeader, !.client = NoClient]}

\* a request out of bodies reaches rate_limiter.check
ArriveFrom(bodies) ==
    /\ resp.error # "pending"
    /\ \E r \in bodies :
         /\ checked' = ClientIp(r)
         /\ req' = [req EXCEPT ![1] = r]
    /\ resp' = Response(0, "pending", 0)
    /\ UNCHANGED <<now, month, requests, dbVars, pc, localVars,
                   extCalls, committed, invocations,
                   objectVars, callVars>>

Arrive == ArriveFrom(LimiterRequests)

\* RateLimiter.check on the request that arrived: HTTPException(429) with
\* its Retry-After header, or the timestamp recorded
LimiterCheck ==
    LET verdict == CheckVerdict(requests, checked, now) IN
    /\ resp.error = "pending"
    /\ requests' = CheckRequests(requests, checked, now)
    /\ resp' = IF verdict = "burst" THEN Response(429, "rate", RetryBurst)
               ELSE IF verdict = "minute"
               THEN Response(429, "rate", RetryMinute)
               ELSE Response(0, "accepted", 0)
    /\ UNCHANGED <<now, month, checked, dbVars, pc, req, localVars,
                   extCalls, committed, invocations,
                   objectVars, callVars>>

\* time passes to a later instant
Tick ==
    /\ \E t \in TimePoints : t > now /\ now' = t
    /\ UNCHANGED <<month, requests, checked, dbVars, pc, req, localVars,
                   resp, extCalls, committed, invocations,
                   objectVars, callVars>>

NextLimiter ==
    \/ Arrive
    \/ LimiterCheck
    \/ Tick

SpecLimiter == Init /\ [][NextLimiter]_vars

\* ----------------------------------------------------- get_remaining
Max(a, b) == IF a > b THEN a ELSE b

\* the ip of get_remaining: request.client.host, else "unknown"
RemainingIp(r) == IF r.client # NoClient THEN r.client ELSE Unknown

\* the dict get_remaining returns for request r at time t (reset_in_seconds
\* is always 60)
get_remaining(reqs, r, t) ==
    LET ip == RemainingIp(r)
        used == Len(Window(CleanOldRequests(reqs, ip, t), ip))
    IN [request |-> r, limit |-> requests_per_minute,
        remaining |-> Max(0, requests_per_minute - used)]

\* requests arriving through a proxy from one socket address, with and
\* without X-Forwarded-For
ProxiedRequests == {r \in LimiterRequests : r.client # NoClient}

\* RateLimiter.get_remaining(request)
GetRemaining ==
    /\ \E r \in ProxiedRequests :
         /\ requests' = CleanOldRequests(requests, RemainingIp(r), now)
         /\ remaining' = get_remaining(requests, r, now)
    /\ UNCHANGED <<now, month, checked, dbVars, pc, req, localVars, resp,
                   extCalls, committed, invocations, objectVars, tpc, tlist,
                   tref, accepted>>

NextRemaining ==
    \/ ArriveFrom(ProxiedRequests)
    \/ LimiterCheck
    \/ Tick
    \/ GetRemaining

SpecRemaining == Init /\ [][NextRemaining]_vars

\* requests of one client handled one at a time while time passes
NextTimed ==
    \/ Step(1, {GoodRequest})
    \/ Tick

SpecTimed == Init /\ [][NextTimed]_vars

\* --------------------------------- rate_limiter.check in several threads
\* POST /api/search is a sync endpoint, run in the server's thread pool:
\* check() calls for one client interleave between their statements, and
\* within `self.requests[ip] = [...]` between building the list and storing it
ThreadIp == ClientIp(GoodRequest)

\* unexpired accepted requests after which no further request is followed
MaxAccepted == 3

\* what is left to every step of a thread's check
ThreadFrame ==
    UNCHANGED <<now, month, checked, dbVars, pc, req, localVars, resp,
                extCalls, committed, invocations, objectVars, remaining>>

\* a request of the client reaches check() in thread th
ThreadArrive(th) ==
    /\ tpc[th] = "idle"
    /\ Len(accepted) < MaxAccepted
    /\ tpc' = [tpc EXCEPT ![th] = "clean"]
    /\ UNCHANGED <<requests, tlist, tref, accepted>>
    /\ ThreadFrame

\* _clean_old_requests: [t for t in self.requests[ip] if now - t < 60]
ThreadCleanBuild(th) ==
    /\ tpc[th] = "clean"
    /\ tlist' = [tlist EXCEPT ![th] =
                    Filter(Window(requests, ThreadIp), now, WindowSeconds)]
    /\ tpc' = [tpc EXCEPT ![th] = "store"]
    /\ UNCHANGED <<requests, tref, accepted>>
    /\ ThreadFrame

\* _clean_old_requests: self.requests[ip] = the list built; a list another
\* thread loaded before is no longer the client's
ThreadCleanStore(th) ==
    /\ tpc[th] = "store"
    /\ requests' = SetWindow(requests, ThreadIp, tlist[th])
    /\ tlist' = [tlist EXCEPT ![th] = <<>>]
    /\ tref' = [o \in Procs |-> FALSE]
    /\ tpc' = [tpc EXCEPT ![th] = "burst"]
    /\ UNCHANGED accepted
    /\ ThreadFrame

\* if self._check_burst(ip): raise HTTPException(429)
ThreadBurst(th) ==
    /\ tpc[th] = "burst"
    /\ tpc' = [tpc EXCEPT ![th] = IF CheckBurst(requests, ThreadIp, now)
                                  THEN "idle" ELSE "minute"]
    /\ UNCHANGED <<requests, tlist, tref, accepted>>
    /\ ThreadFrame

\* if len(self.requests[ip]) >= requests_per_minute: raise HTTPException(429)
ThreadMinute(th) ==
    /\ tpc[th] = "minute"
    /\ tpc' = [tpc EXCEPT ![th] = IF CheckMinute(requests, ThreadIp)
                                  THEN "idle" ELSE "append"]
    /\ UNCHANGED <<requests, tlist, tref, accepted>>
    /\ ThreadFrame

\* self.requests[ip].append(time.time()): the list is loaded before the
\* argument's call of time.time()
ThreadLoad(th) ==
    /\ tpc[th] = "append"
    /\ tref' = [tref EXCEPT ![th] = TRUE]
    /\ tpc' = [tpc EXCEPT ![th] = "call"]
    /\ UNCHANGED <<requests, tlist, accepted>>
    /\ ThreadFrame

\* self.requests[ip].append(time.time()): the append to the list loaded
ThreadAppend(th) ==
    /\ tpc[th] = "call"
    /\ requests' = IF tref[th]
                   THEN SetWindow(requests, ThreadIp,
                                  Append(Window(requests, ThreadIp), now))
                   ELSE requests
    /\ accepted' = Append(accepted, now)
    /\ tref' = [tref EXCEPT ![th] = FALSE]
    /\ tpc' = [tpc EXCEPT ![th] = "idle"]
    /\ UNCHANGED tlist
    /\ ThreadFrame

\* time passes; appended timestamps 60 seconds old are no longer of interest
ThreadTick ==
    /\ \E t \in TimePoints :
         /\ t > now
         /\ now' = t
         /\ accepted' = Filter(accepted, t, WindowSeconds)
    /\ UNCHANGED <<month, requests, checked, dbVars, pc, req, localVars,
                   resp, extCalls, committed, invocations, objectVars,
                   tpc, tlist, tref, remaining>>

NextThreads ==
    \/ \E th \in Procs :
          \/ ThreadArrive(th)
          \/ ThreadCleanBuild(th)
          \/ ThreadCleanStore(th)
          \/ ThreadBurst(th)
          \/ ThreadMinute(th)
          \/ ThreadLoad(th)
          \/ ThreadAppend(th)
    \/ ThreadTick

SpecThreads == Init /\ [][NextThreads]_vars

\* ------------------------------------------- the methods of class Business
\* the outcome of a method call: the exception raised, or the value
Raised(e) == [raised |-> e, value |-> NoneNum]
Returned(v) == [raised |-> "none", value |-> v]

\* business.calculate_lead_score(): class Business defines its columns and
\* to_dict and no such attribute, so the attribute lookup raises
calculate_lead_score(b) == Raised("AttributeError")

WebsiteInputs == {NoneStr, "", "http"}
RatingInputs == {NoneNum, 0, 39, 40, 45, 50}
ReviewInputs == {NoneNum, 0, 99, 100, 150}
PhoneInputs == {NoneStr, "", "+1"}

InitObject ==
    /\ InitService
    /\ \E w \in WebsiteInputs, r \in RatingInputs, n \in ReviewInputs,
          ph \in PhoneInputs : subject = BusinessObject(w, r, n, ph)

CalculateLeadScore ==
    /\ scored = <<>>
    /\ scored' = <<calculate_lead_score(subject)>>
    /\ UNCHANGED <<now, month, requests, checked, dbVars, pc, req, localVars,
                   resp, extCalls, committed, invocations, subject, dumped,
                   params, listed, callVars>>

ToDict ==
    /\ dumped = <<>>
    /\ dumped' = <<to_dict(subject)>>
    /\ UNCHANGED <<now, month, requests, checked, dbVars, pc, req, localVars,
                   resp, extCalls, committed, invocations, subject, scored,
                   params, listed, callVars>>

NextObject ==
    \/ CalculateLeadScore
    \/ ToDict

SpecObject == InitObject /\ [][NextObject]_vars

\* -------------------------------------------- the listing of businesses
\* businesses the listing is checked on: at most this many rows
MaxRows == 3

PlaceIds == <<"p1", "p2", "p3", "p4", "p5">>

\* search, website and rating of a stored business
Profiles ==
    {[search_id |-> 1, website |-> NoneStr, rating |-> 45],
     [search_id |-> 1, website |-> "http", rating |-> 30],
     [search_id |-> 1, website |-> "", rating |-> 30],
     [search_id |-> 2, website |-> "http", rating |-> 45],
     [search_id |-> 2, website |-> "", rating |-> NoneNum],
     [search_id |-> 2, website |-> NoneStr, rating |-> NoneNum]}

\* row i of the businesses table
StoredBusiness(i, prof) ==
    [BusinessObject(prof.website, prof.rating, NoneNum, NoneStr) EXCEPT
        !.id = i, !.place_id = PlaceIds[i], !.search_id = prof.search_id,
        !.created_at = 0]

StoredTables ==
    UNION {{[i \in 1..n |-> StoredBusiness(i, f[i])] :
               f \in [1..n -> Profiles]} : n \in 0..MaxRows}

\* the database after two searches stored some businesses
InitList ==
    /\ InitRest
    /\ searches = <<NewSearch(GoodRequest, 2, 0, 1),
                    NewSearch(GoodRequest, 2, 0, 2)>>
    /\ businesses \in StoredTables
    /\ subject = BusinessObject(NoneStr, NoneNum, NoneNum, NoneStr)

\* query parameters of GET /api/businesses
SearchIdParams == {NoneNum, 0, 1, 3}
HasWebsiteParams == {"None", "True", "False"}
MinRatingParams == {NoneNum, 0, 40}
LimitParams == {0 - 1, 0, 2, 200, 201}
OffsetParams == {0 - 1, 0, 1}

\* GET /api/businesses
ListBusinesses ==
    /\ listed = NoListing
    /\ \E sid \in SearchIdParams, hw \in HasWebsiteParams,
          mr \in MinRatingParams, l \in LimitParams, o \in OffsetParams :
         LET q == [search_id |-> sid, has_website |-> hw, min_rating |-> mr,
                   limit |-> l, offset |-> o]
         IN /\ params' = q
            /\ listed' \in list_businesses(businesses, q)
    /\ UNCHANGED <<now, month, requests, checked, dbVars, pc, req, localVars,
                   resp, extCalls, committed, invocations, subject, scored,
                   dumped, callVars>>

NextList == ListBusinesses

SpecList == InitList /\ [][NextList]_vars

\* ------------------------------------------------------------- properties
\* the step is handler 1 receiving a POST /api/search (under SpecSeq every
\* step from an idle handler 1 is one)
Received == pc[1] = "idle"

\* the step lets a request through the rate limiter into PlacesService
Invoked == invocations' = invocations + 1

\* C1: a search_businesses invoked while the month's call_count is at or
\* over MONTHLY_API_LIMIT answers APILimitExceeded (429) at once: no
\* external call is attempted, the handler has returned, and the quota
\* counter, the searches and the businesses are as they were.
C1_QuotaGating ==
    [][(Invoked /\ UsedCount(api_usage, month) >= MONTHLY_API_LIMIT) =>
          /\ resp'.status = 429
          /\ resp'.error = "APILimitExceeded"
          /\ extCalls' = extCalls
          /\ api_usage' = api_usage
          /\ searches' = searches
          /\ businesses' = businesses
          /\ \A p \in Procs : pc'[p] = "idle"]_vars

C1_Witness ==
    /\ resp.error = "APILimitExceeded"
    /\ UsedCount(api_usage, month) >= MONTHLY_API_LIMIT
    /\ searches # <<>>

\* handler p takes a step of its loop over places_to_process
LoopStep(p) ==
    /\ pc[p] = "loop"
    /\ idx'[p] # idx[p] \/ pc'[p] # "loop"

\* the position in the businesses table of the place handler p is at
StoredAt(p) ==
    IF idx[p] \in 1..Len(results[p])
    THEN LET hits == {i \in 1..Len(businesses) :
                        businesses[i].place_id = results[p][idx[p]].place_id}
         IN IF hits = {} THEN 0 ELSE CHOOSE i \in hits : TRUE
    ELSE 0

\* C2: under any interleaving of searches no two stored Business records
\* share a place_id; a loop step that meets a place_id already stored adds
\* no record, fetches no details and appends the stored record's
\* serialized fields to the result list, which a 200 response returns.
C2_Dedup ==
    /\ [](\A i, j \in 1..Len(businesses) :
             businesses[i].place_id = businesses[j].place_id => i = j)
    /\ [][\A p \in Procs :
             /\ (LoopStep(p) /\ StoredAt(p) # 0) =>
                    /\ out'[p] = Append(out[p], to_dict(businesses[StoredAt(p)]))
                    /\ pending'[p] = pending[p]
                    /\ businesses' = businesses
                    /\ extCalls' = extCalls
                    /\ pc'[p] = "loop"
             /\ (LoopStep(p) /\ pc'[p] = "idle" /\ resp'.status = 200) =>
                    resp'.businesses = out[p]]_vars

C2_Witness ==
    /\ resp.status = 200
    /\ Len(searches) = 2
    /\ \E k \in 1..Len(resp.businesses) :
          /\ resp.businesses[k].id # NoneNum
          /\ resp.businesses[k] = to_dict(businesses[resp.businesses[k].id])

\* the step is rate_limiter.check deciding on the request that arrived
Decided == resp.error = "pending" /\ resp'.error # "pending"

\* timestamps of the checked client younger than w seconds
Younger(w) ==
    LET ts == Window(requests, checked) IN
    Cardinality({i \in 1..Len(ts) : now - ts[i] < w})

\* C3: with burst_limit accepted requests of the client in the last 5
\* seconds the check is rejected with 429 and Retry-After 5; with every
\* accepted request of the client at least 5 seconds old and fewer than
\* requests_per_minute of them in the last 60 seconds it is accepted and
\* its timestamp recorded.
C3_BurstAndRecovery ==
    [][Decided =>
          /\ Younger(5) >= burst_limit =>
                 resp' = Response(429, "rate", 5)
          /\ (Younger(5) = 0 /\ Younger(60) < requests_per_minute) =>
                 /\ resp'.error = "accepted"
                 /\ Len(Window(requests', checked)) = Younger(60) + 1
                 /\ Window(requests', checked)[Younger(60) + 1] = now]_vars

\* a burst of burst_limit requests, then one accepted 5 seconds or more later
C3_Witness ==
    LET ts == Window(requests, checked) IN
    /\ resp.error = "accepted"
    /\ Len(ts) > burst_limit
    /\ ts[Len(ts)] = now
    /\ ts[Len(ts) - 1] - ts[Len(ts) - burst_limit] < 5
    /\ ts[Len(ts)] - ts[Len(ts) - 1] = 5

\* C4: when the burst check does not trigger and requests_per_minute
\* timestamps of the client remain within 60 seconds the check is rejected
\* with 429 and Retry-After 60; when both limits are reached the burst
\* check, evaluated first, gives Retry-After 5.
C4_Sustained ==
    [][Decided =>
          /\ (Younger(5) < burst_limit /\ Younger(60) >= requests_per_minute)
                 => resp' = Response(429, "rate", 60)
          /\ (Younger(5) >= burst_limit /\ Younger(60) >= requests_per_minute)
                 => resp' = Response(429, "rate", 5)]_vars

C4_Witness ==
    /\ resp = Response(429, "rate", 60)
    /\ Younger(5) < burst_limit
    /\ Younger(60) >= requests_per_minute

\* 50*[no website] + 20*[rating >= 4.0] + 15*[reviews >= 100] + 15*[phone]
LeadScore(b) ==
    (IF b.website = NoneStr \/ b.website = "" THEN 50 ELSE 0)
    + (IF b.rating # NoneNum /\ b.rating >= 40 THEN 20 ELSE 0)
    + (IF b.review_count # NoneNum /\ b.review_count >= 100 THEN 15 ELSE 0)
    + (IF b.phone # NoneStr /\ b.phone # "" THEN 15 ELSE 0)

\* C5: calculate_lead_score() returns 50*[no website] + 20*[rating >= 4.0]
\* + 15*[review_count >= 100] + 15*[phone present], a value in 0..100.
C5_LeadScore ==
    \A k \in 1..Len(scored) :
        /\ scored[k] = Returned(LeadScore(subject))
        /\ scored[k].value \in 0..100

\* C6: every serialized business has a lead_score field holding the lead
\* score of the record's website, rating, review_count and phone.
C6_SerializedLeadScore ==
    \A k \in 1..Len(dumped) :
        /\ "lead_score" \in DOMAIN dumped[k]
        /\ dumped[k].lead_score = LeadScore(subject)

\* C7: within one sequential search no external call is issued while the
\* month's call_count is at or over MONTHLY_API_LIMIT.
C7_GateEveryCall ==
    [][extCalls' # extCalls =>
          UsedCount(api_usage, month) < MONTHLY_API_LIMIT]_vars

\* C8: over any sequence of searches a month's call_count never decreases
\* and never exceeds the external calls attempted in that month.
C8_QuotaAccounting ==
    /\ [](\A m \in 1..MaxMonth : UsedCount(api_usage, m) <= extCalls[m])
    /\ [][\A m \in 1..MaxMonth :
             UsedCount(api_usage', m) >= UsedCount(api_usage, m)]_vars

\* calls were attempted and counted, and a failed one was not counted
C8_Witness ==
    \E m \in 1..MaxMonth :
        /\ UsedCount(api_usage, m) >= 2
        /\ extCalls[m] > UsedCount(api_usage, m)

\* C9: the month's stored call_count reflects every committed increment of
\* concurrent searches.
C9_NoLostIncrement ==
    \A m \in 1..MaxMonth : UsedCount(api_usage, m) >= committed[m]

\* the body is outside what SearchRequest accepts
Malformed(r) ==
    \/ r.query = NoneStr
    \/ r.location = NoneStr
    \/ r.radius_km \notin 1..50
    \/ r.max_results \notin 1..20

\* C10: a POST /api/search with radius_km outside 1..50, max_results
\* outside 1..20 or without query or location is answered 422 with no
\* external call attempted and the quota counter, the searches, the
\* businesses and the rate-limiter windows unchanged.
C10_ValidationFirst ==
    [][(Received /\ Malformed(req'[1])) =>
          /\ resp'.status = 422
          /\ extCalls' = extCalls
          /\ api_usage' = api_usage
          /\ searches' = searches
          /\ businesses' = businesses
          /\ requests' = requests
          /\ pc' = pc]_vars

\* a malformed request answered after earlier requests left their traces
C10_Witness ==
    /\ resp.status = 422
    /\ Malformed(req[1])
    /\ DOMAIN requests # {}
    /\ api_usage # <<>>

\* the step ends handler 1's search at the geocode or the text search call
EndsAtExternalCall ==
    /\ \/ pc[1] \in {"geocode", "places"}
       \/ pc[1] = "increment" /\ after[1] # "details"
    /\ pc'[1] = "idle"

\* C11: a search that ends at the geocode or the text search, unusable
\* data from the external API included, ends with PlacesAPIError (400) or
\* APILimitExceeded (429), never with another exception (500).
C11_ErrorClassification ==
    [][EndsAtExternalCall =>
          \/ resp'.status = 400 /\ resp'.error = "PlacesAPIError"
          \/ resp'.status = 429 /\ resp'.error = "APILimitExceeded"]_vars

\* the rows at the 0-based positions offset .. offset + limit - 1
SliceOf(rows, offset, limit) ==
    LET first == (IF offset < 0 THEN 0 ELSE offset) + 1
        last == Min(Len(rows), offset + limit)
    IN IF first > last THEN <<>> ELSE SubSeq(rows, first, last)

\* C12: for every limit <= 200 and every offset the listing is answered
\* with at most limit items, the limit and offset given, total = the
\* number of rows matching the filters, and as page the slice
\* [offset, offset + limit) of the matches by rating descending, nulls last.
C12_Pagination ==
    listed # NoListing =>
        /\ params.limit <= 200 => listed.status = 200
        /\ listed.status = 200 =>
               /\ Len(listed.businesses) <= params.limit
               /\ listed.limit = params.limit
               /\ listed.offset = params.offset
               /\ listed.total = Len(SelectRows(businesses, params))
               /\ \E o \in OrderBy(SelectRows(businesses, params)) :
                      LET page == SliceOf(o, params.offset, params.limit) IN
                      listed.businesses =
                          [i \in 1..Len(page) |-> to_dict(page[i])]

\* the row is one the filters, as supplied, ask for
Wanted(b, q) ==
    /\ q.search_id # NoneNum => b.search_id = q.search_id
    /\ q.has_website = "True" => (b.website # NoneStr /\ b.website # "")
    /\ q.has_website = "False" => (b.website = NoneStr \/ b.website = "")
    /\ q.min_rating # NoneNum =>
           (b.rating # NoneNum /\ b.rating >= q.min_rating)

\* C15: the listing counts, and with the whole list on one page returns,
\* exactly the businesses with search_id equal to a supplied search_id,
\* website non-empty (has_website true) or null or empty (false), and
\* rating >= a supplied min_rating; an omitted filter selects all.
C15_Filters ==
    LET wanted == {i \in 1..Len(businesses) : Wanted(businesses[i], params)}
    IN listed.status = 200 =>
           /\ listed.total = Cardinality(wanted)
           /\ (params.limit = 200 /\ params.offset = 0) =>
                  {listed.businesses[k].id :
                      k \in 1..Len(listed.businesses)} = wanted

\* handler 1 returns the result of its search
Returns200 == pc[1] = "loop" /\ pc'[1] = "idle" /\ resp'.status = 200

\* C13: the list a search returns has one entry per place of the external
\* result list cut to max_results, in the external order, reused and new
\* records alike; total_results is its length and at most max_results.
C13_ResultOrdering ==
    /\ [](pc[1] = "loop" =>
             /\ Len(out[1]) = idx[1] - 1
             /\ \A k \in 1..Len(out[1]) :
                    out[1][k].place_id = results[1][k].place_id)
    /\ [][Returns200 =>
             /\ Len(resp'.businesses) =
                    Min(req[1].max_results,
                        searches[resp'.search_id].results_count)
             /\ \A k \in 1..Len(resp'.businesses) :
                    resp'.businesses[k].place_id = results[1][k].place_id
             /\ resp'.total_results = Len(resp'.businesses)
             /\ resp'.total_results <= req[1].max_results]_vars

\* a search returned a new record followed by a reused one
C13_Witness ==
    /\ resp.status = 200
    /\ resp.total_results = 2
    /\ resp.businesses[1].id = NoneNum
    /\ resp.businesses[2].id # NoneNum
    /\ resp.businesses[1].place_id # resp.businesses[2].place_id

\* the details fetch of handler 1 fails
DetailsFails == pc[1] = "details" /\ pc'[1] # "increment"

\* C14: a failed details fetch ends no search and raises nothing: the
\* quota counter stays, the place's Business goes into the Session with
\* phone and website None, the loop moves to the next place, and the
\* commit of a search that returns stores the records in the Session.
C14_DetailsFailure ==
    /\ [][DetailsFails =>
             /\ pc'[1] = "loop"
             /\ resp' = resp
             /\ api_usage' = api_usage
             /\ committed' = committed
             /\ results'[1] = results[1]
             /\ idx'[1] = idx[1] + 1
             /\ pending'[1] =
                    Append(pending[1],
                           [NewBusiness(results[1][idx[1]], NoDetails,
                                        search_id[1])
                               EXCEPT !.phone = NoneStr,
                                      !.website = NoneStr])]_vars
    /\ [][Returns200 =>
             \A i \in 1..Len(pending[1]) :
                 \E j \in 1..Len(businesses') :
                     businesses'[j] = [pending[1][i] EXCEPT
                                          !.id = j, !.created_at = now]]_vars

\* one search: the first place's details fetch failed, the second's
\* succeeded, both places are stored
C14_Witness ==
    /\ resp.status = 200
    /\ invocations = 1
    /\ extCalls[1] = 4
    /\ UsedCount(api_usage, 1) = 3
    /\ Len(businesses) = 2
    /\ businesses[1].phone = NoneStr /\ businesses[1].website = NoneStr
    /\ businesses[2].phone # NoneStr

\* C16: under any interleaving of _increment_api_usage calls the
\* api_usage table holds at most one row per month, loses no row, and the
\* count _check_api_limit reads is the number of increments committed.
C16_OneRecordPerMonth ==
    /\ [](\A i, j \in 1..Len(api_usage) :
             api_usage[i].month = api_usage[j].month => i = j)
    /\ [](\A m \in 1..MaxMonth :
             CheckApiLimit(api_usage, m, NoUsage) = committed[m])
    /\ [][Len(api_usage') >= Len(api_usage)]_vars

\* C17: a details fetch is attempted only while MONTHLY_API_LIMIT minus
\* the month's call_count at that moment exceeds 2, and a successful one
\* adds exactly 1 to the call_count.
C17_DetailsHeadroom ==
    /\ [][(pc[1] = "details" /\ extCalls' # extCalls) =>
             MONTHLY_API_LIMIT - UsedCount(api_usage, month) > 2]_vars
    /\ [][(pc[1] = "increment" /\ after[1] = "details") =>
             UsedCount(api_usage', month) =
                 UsedCount(api_usage, month) + 1]_vars

\* C18: a loop step on a place_id that has a stored record fetches no
\* details, leaves the quota counter alone and changes no stored record;
\* no step ever changes a field of a stored Business.
C18_DedupFrame ==
    /\ [][(LoopStep(1) /\ StoredAt(1) # 0) =>
             /\ extCalls' = extCalls
             /\ api_usage' = api_usage
             /\ committed' = committed
             /\ current'[1] = current[1]
             /\ pending'[1] = pending[1]
             /\ pc'[1] = "loop"
             /\ businesses' = businesses]_vars
    /\ [][\A i \in 1..Len(businesses) :
             /\ Len(businesses') >= i
             /\ businesses'[i] = businesses[i]]_vars

\* the second search returned a record the first search stored
C18_Witness ==
    /\ resp.status = 200
    /\ resp.search_id = 2
    /\ \E k \in 1..Len(resp.businesses) :
          /\ resp.businesses[k].id \in 1..Len(businesses)
          /\ businesses[resp.businesses[k].id].search_id = 1
          /\ businesses[resp.businesses[k].id].place_id =
                 resp.businesses[k].place_id

\* C19: a geocode call that fails leaves the quota counter and ends the
\* search with PlacesAPIError wrapping the cause; one that succeeds adds
\* exactly 1, and with no match the search ends with PlacesAPIError naming
\* the location, no text search, no Search and no Business record.
C19_GeocodeOutcomes ==
    /\ [][(pc[1] = "geocode" /\ pc'[1] = "idle") =>
             /\ api_usage' = api_usage
             /\ resp' = [Response(400, "PlacesAPIError", 0) EXCEPT
                            !.detail = <<"Failed to geocode location: ",
                                         "cause">>]]_vars
    /\ [][(pc[1] = "increment"
               /\ after[1] \in {"empty", "malformed", "ok"}) =>
             UsedCount(api_usage', month) =
                 UsedCount(api_usage, month) + 1]_vars
    /\ [][(pc[1] = "increment" /\ after[1] = "empty") =>
             /\ pc'[1] = "idle"
             /\ resp' = [Response(400, "PlacesAPIError", 0) EXCEPT
                            !.detail = <<"Could not find location: ",
                                         req[1].location>>]
             /\ extCalls' = extCalls
             /\ searches' = searches
             /\ businesses' = businesses]_vars

\* a first search whose geocode found no match
C19_Witness ==
    /\ resp.error = "PlacesAPIError"
    /\ resp.detail = <<"Could not find location: ", "loc">>
    /\ UsedCount(api_usage, month) = 1
    /\ extCalls[month] = 1
    /\ searches = <<>>

\* C20: the searches table changes only by the one record a search adds
\* after its text search, holding the request's query, location and
\* radius and the raw number of results; a search that ends before adds
\* none; every Business stored carries the id of its search's record.
C20_SearchRecord ==
    /\ [][searches' # searches =>
             /\ pc[1] = "increment" /\ after[1] = "places"
             /\ searches' =
                    Append(searches,
                           [id |-> Len(searches) + 1,
                            query |-> req[1].query,
                            location |-> req[1].location,
                            radius_km |-> req[1].radius_km,
                            results_count |-> Len(results[1]),
                            created_at |-> now])]_vars
    /\ [][(pc[1] = "increment" /\ after[1] = "places") =>
             /\ Len(searches') = Len(searches) + 1
             /\ search_id'[1] = Len(searches')]_vars
    /\ [](Len(searches) <= invocations)
    /\ [][\A j \in (Len(businesses) + 1)..Len(businesses') :
             /\ businesses'[j].search_id = search_id[1]
             /\ search_id[1] = Len(searches)]_vars

\* a search stored one business of the two the text search returned
C20_Witness ==
    /\ resp.status = 200
    /\ resp.total_results = 1
    /\ searches[resp.search_id].results_count = 2
    /\ \E j \in 1..Len(businesses) :
          businesses[j].search_id = resp.search_id

\* how often the timestamp t occurs in the list ts
Occurrences(ts, t) == Cardinality({i \in 1..Len(ts) : ts[i] = t})

\* C21: under any interleaving of check() calls for one client every
\* timestamp appended for an accepted request and less than 60 seconds old
\* is in the client's window, as often as it was appended.
C21_NoLostTimestamp ==
    \A t \in TimePoints :
        now - t < 60 =>
            Occurrences(Window(requests, ThreadIp), t)
                >= Occurrences(accepted, t)

\* the api_usage rows of month m
MonthRows(rows, m) == {i \in 1..Len(rows) : rows[i].month = m}

\* C22: when the month changes the used count read is 0, and stays 0
\* until an increment of that month is committed; a search invoked in a
\* month without record is admitted whatever earlier months hold; the
\* first increment of a month appends that month's record with count 1,
\* and an increment changes no record of another month.
C22_MonthRollover ==
    /\ [][month' # month =>
             /\ MonthRows(api_usage', month') = {}
             /\ CheckApiLimit(api_usage', month', NoUsage) = 0]_vars
    /\ [](\A m \in 1..MaxMonth :
             committed[m] = 0 => CheckApiLimit(api_usage, m, NoUsage) = 0)
    /\ [][(Invoked /\ MonthRows(api_usage, month) = {}) =>
             pc'[1] = "geocode"]_vars
    /\ [][api_usage' # api_usage =>
             LET m == incval[1].month IN
             /\ \A i \in 1..Len(api_usage) :
                    api_usage[i].month # m => api_usage'[i] = api_usage[i]
             /\ MonthRows(api_usage, m) = {} =>
                    api_usage' = Append(api_usage, UsageRow(m, 1, now))]_vars

\* the quota of month 1 was used up; a search of month 2 was admitted and
\* its first increment created the record of month 2
C22_Witness ==
    /\ month = 2
    /\ Len(api_usage) = 2
    /\ api_usage[1].month = 1
    /\ api_usage[1].call_count >= MONTHLY_API_LIMIT
    /\ api_usage[2].month = 2
    /\ api_usage[2].call_count >= 1

\* C23: right after each of a sequence of checks the window of the client
\* checked holds only timestamps less than 60 seconds old, in
\* non-decreasing order, at most requests_per_minute of them and at most
\* burst_limit less than 5 seconds old.
C23_RateWindow ==
    [][Decided =>
          LET ts == Window(requests', checked) IN
          /\ \A i \in 1..Len(ts) : now - ts[i] < 60
          /\ \A i, j \in 1..Len(ts) : i < j => ts[i] <= ts[j]
          /\ Len(ts) <= requests_per_minute
          /\ Cardinality({i \in 1..Len(ts) : now - ts[i] < 5})
                 <= burst_limit]_vars

\* a check accepted into a window that lost an expired timestamp and is
\* full again
C23_Witness ==
    LET ts == Window(requests, checked) IN
    /\ resp.error = "accepted"
    /\ now >= 60
    /\ Len(ts) = requests_per_minute
    /\ ts[Len(ts)] = now
    /\ ts[1] > 0

\* the first entry of an X-Forwarded-For value, blanks removed
FirstEntry(h) ==
    LET commas == {i \in 1..Len(h) : h[i] = ","}
        k == IF commas = {} THEN Len(h) + 1
             ELSE CHOOSE i \in commas : \A j \in commas : i <= j
    IN SelectSeq(SubSeq(h, 1, k - 1), LAMBDA c : c # " ")

\* the client identifier of a request: the header's first entry when the
\* header is there, else the socket address, else "unknown"
Identifier(r) ==
    IF r.forwarded # <<>> THEN FirstEntry(r.forwarded)
    ELSE IF r.client # <<>> THEN r.client
    ELSE <<"unknown">>

\* C24: check() keys its window by the request's client identifier; a
\* check changes no window but that identifier's, and accepts or rejects
\* as it would with that identifier's window alone.
C24_ClientIdentification ==
    /\ [](resp.error = "pending" => checked = Identifier(req[1]))
    /\ [][Decided =>
             LET own == SetWindow(<<>>, checked, Window(requests, checked))
             IN
             /\ \A ip \in DOMAIN requests \ {checked} :
                    /\ ip \in DOMAIN requests'
                    /\ requests'[ip] = requests[ip]
             /\ DOMAIN requests' \subseteq DOMAIN requests \cup {checked}
             /\ resp'.error = "accepted" <=>
                    CheckVerdict(own, checked, now) = "ok"
             /\ Window(requests', checked) =
                    Window(CheckRequests(own, checked, now), checked)]_vars

\* the three kinds of identifier have windows, and the header's client
\* was rejected while the others have room
C24_Witness ==
    /\ {<<"a">>, <<"b">>, <<"unknown">>} \subseteq DOMAIN requests
    /\ requests[<<"a">>] # <<>>
    /\ requests[<<"unknown">>] # <<>>
    /\ Len(requests[<<"b">>]) > Len(requests[<<"a">>])
    /\ checked = <<"b">>
    /\ resp.status = 429

\* handler 1 answers a POST /api/search with the rate limiter's rejection
\* (a request let through counts as an invocation, a time step moves now)
RateRejected ==
    /\ pc[1] = "idle"
    /\ now' = now
    /\ invocations' = invocations
    /\ resp'.error = "rate"

\* C25: a POST /api/search the rate limiter rejects, for a burst or for
\* the minute limit, leaves in the client's window the unexpired
\* timestamps it held and no other, attempts no external call and leaves
\* the quota counter, the searches and the businesses as they were.
C25_RejectedNoEffect ==
    [][RateRejected =>
          /\ resp'.status = 429
          /\ resp'.retry_after \in {5, 60}
          /\ Window(requests', checked') =
                 Filter(Window(requests, checked'), now, 60)
          /\ \A ip \in DOMAIN requests \ {checked'} :
                 requests'[ip] = requests[ip]
          /\ extCalls' = extCalls
          /\ api_usage' = api_usage
          /\ searches' = searches
          /\ businesses' = businesses
          /\ pc'[1] = "idle"]_vars

\* a search stored its results, and a later request of the client was
\* rejected for the minute limit
C25_Witness ==
    /\ resp = Response(429, "rate", 60)
    /\ businesses # <<>>
    /\ Len(Window(requests, checked)) = requests_per_minute

\* place_ids the list handler 1 went through holds more than once and no
\* earlier search stored
NewDuplicates ==
    {results[1][i].place_id : i \in 1..Len(results[1])} \cap
    {pid \in {"p1", "p2"} :
        /\ Cardinality({i \in 1..Len(results[1]) :
                           results[1][i].place_id = pid}) > 1
        /\ \A j \in 1..Len(businesses) :
               businesses[j].place_id = pid =>
                   businesses[j].search_id = search_id[1]}

\* C26: a search whose truncated result list holds a new place_id more
\* than once still returns its result, with exactly one Business stored
\* for that place_id, stored under the search's own record.
C26_DuplicateInSearch ==
    [][(pc[1] = "loop" /\ pc'[1] = "idle") =>
          \A pid \in NewDuplicates :
              /\ resp'.status = 200
              /\ Cardinality({j \in 1..Len(businesses') :
                                 businesses'[j].place_id = pid}) = 1
              /\ \E j \in 1..Len(businesses') :
                     /\ businesses'[j].place_id = pid
                     /\ businesses'[j].search_id = search_id[1]]_vars

\* C27: get_remaining reports max(0, requests_per_minute - n), n being
\* the unexpired timestamps in the window of the client identifier check()
\* uses for the same request, and lengthens no window.
C27_RemainingAgreesWithCheck ==
    [][remaining' # remaining =>
          LET ip == ClientIp(remaining'.request)
              n == Len(Filter(Window(requests, ip), now, 60))
          IN
          /\ remaining'.remaining =
                 IF requests_per_minute - n > 0
                 THEN requests_per_minute - n ELSE 0
          /\ \A k \in DOMAIN requests :
                 Len(requests'[k]) <= Len(requests[k])]_vars
====
